---------------------------- MODULE Spec2Model ----------------------------
(***************************************************************************)
(* X-OneBot: tenant routing and backend fallback engine.                   *)
(*                                                                         *)
(* The module models                                                       *)
(*   - the phone number registry (table phone_numbers, its unique column   *)
(*     phone_number) and the operations of MultiProviderPhoneManager,      *)
(*     ExistingNumberManager and PhoneManager on it;                       *)
(*   - inbound call resolution (route_incoming_call, both managers, and    *)
(*     the voice endpoint);                                                *)
(*   - the human-transfer endpoint;                                        *)
(*   - UniversalBot.process_message over ChatMemory (Redis), and           *)
(*     UniversalWhatsAppService over its in-process session table;         *)
(*   - ModelRouter.route_query (complexity, model choice, fallback chain); *)
(*   - the ChatMemory objects themselves (context copy, short-term window)  *)
(*     and process_message as a coroutine suspended at its await;           *)
(*   - the forwarding endpoint and the verification of existing numbers.   *)
(*                                                                         *)
(* The JSON field the code calls PhoneNumber.metadata is modelled as the   *)
(* record field extension_code (the only key of it that routing reads).    *)
(***************************************************************************)
EXTENDS Integers, Sequences, FiniteSets, TLC

---------------------------------------------------------------------------
(* Bounds *)

MaxBusiness == 2
MaxNumber == 2
MaxCode == 2
MaxSession == 1
MaxHistory == 4
MaxHandle == 2
MaxTime == 1
MaxOrder == 1

---------------------------------------------------------------------------
(* Values *)

None == 0

UNIVERSAL_BOT_NUMBER == 100

MOCK_CUSTOM_NUMBER == 155

BusinessIds == 1..MaxBusiness

DedicatedNumbers == (UNIVERSAL_BOT_NUMBER + 1)..(UNIVERSAL_BOT_NUMBER + MaxNumber)

PhoneNumbers == {UNIVERSAL_BOT_NUMBER} \cup DedicatedNumbers

ExtensionCodes == 1..MaxCode

PhoneNumberType == {"universal_only", "custom_only", "both"}

NumberStatus == {"provisioning", "active", "suspended", "released"}

SessionIds == 1..MaxSession

\* The ChatMemory objects (and the coroutines) that can be alive at once.
Handles == 1..MaxHandle

\* The readings of datetime.utcnow().
Times == 0..MaxTime

OrderIds == 1..MaxOrder

VARIABLES
    businesses,      \* table businesses: id -> row
    phone_numbers,   \* table phone_numbers: sequence of rows in insertion order
    contexts,        \* Redis chat:context:<session_id>
    histories,       \* Redis chat:history:<session_id>
    active_sessions, \* UniversalWhatsAppService.active_sessions
    memories,        \* the ChatMemory objects that are alive
    handlings,       \* the process_message coroutines that are suspended
    timers,          \* Redis: what is left of each key's time to live
    walks,           \* the route_query calls that have not returned
    orders,          \* table orders: id -> row
    last             \* the last operation and what it returned

vars == <<businesses, phone_numbers, contexts, histories, active_sessions, memories, handlings, timers, walks, orders, last>>

\* What the phone operations leave alone: the conversations and the orders.
conversations == <<contexts, histories, active_sessions, memories, handlings, timers, walks, orders>>

---------------------------------------------------------------------------
(* Tables *)

Business(b) == businesses[b]

BusinessExists(b) == b \in BusinessIds /\ businesses[b].exists

Rows == {phone_numbers[i] : i \in 1..Len(phone_numbers)}

\* The table without the unique index on phone_number.
InsertAllowedAnyNumber(row) == BusinessExists(row.business_id)

\* Column phone_number is unique=True and business_id is a foreign key:
\* the INSERT is rejected (IntegrityError at commit) otherwise.
InsertAllowed(row) ==
    /\ \A r \in Rows : r.phone_number # row.phone_number
    /\ BusinessExists(row.business_id)

NewRow(business_id, phone_number, is_universal, status, extension_code) ==
    [id |-> Len(phone_numbers) + 1,
     business_id |-> business_id,
     phone_number |-> phone_number,
     is_universal |-> is_universal,
     status |-> status,
     extension_code |-> extension_code,
     activated |-> (status = "active")]

\* What the last call was and how it ended: raised (an exception escaped)
\* or returned result.
Last(op, raised, result) == [op |-> op, raised |-> raised, result |-> result]

\* A key that is not stored.
NoKey == [stored |-> FALSE]

\* An object that does not exist (yet, or any more).
NoObject == [alive |-> FALSE]

\* A row that is not in its table.
NoRow == [exists |-> FALSE]

\* The seconds setex and expire give a key: 3600 * 24.
TTL == 86400

\* The seconds between two looks at the clock.
TickSeconds == 43200

\* Per session: the seconds left to the context key and to the history key,
\* and the seconds since the session's last activity (counted up to TTL).
NoTimer == [context |-> 0, history |-> 0, idle |-> 0]

Init ==
    /\ businesses = [b \in BusinessIds |->
                        [exists |-> TRUE,
                         is_active |-> TRUE,
                         phone_config |-> "universal_only",
                         custom_phone_number |-> None,
                         custom_number_monthly_cost |-> 0]]
    /\ phone_numbers = <<>>
    /\ contexts = [s \in SessionIds |-> NoKey]
    /\ histories = [s \in SessionIds |-> <<>>]
    /\ active_sessions = [s \in SessionIds |-> NoKey]
    /\ memories = [h \in Handles |-> NoObject]
    /\ handlings = [h \in Handles |-> NoObject]
    /\ timers = [s \in SessionIds |-> NoTimer]
    /\ walks = [h \in Handles |-> NoObject]
    /\ orders = [o \in OrderIds |-> NoRow]
    /\ last = Last("init", FALSE, None)

---------------------------------------------------------------------------
(* MultiProviderPhoneManager and ExistingNumberManager *)

\* phone_config in [CUSTOM_ONLY, BOTH] gets the mock number and the mock
\* cost; no phone_numbers row is written.
OnboardedBusiness(row, phone_config) ==
    [row EXCEPT
        !.phone_config = phone_config,
        !.custom_phone_number =
            IF phone_config \in {"custom_only", "both"}
            THEN MOCK_CUSTOM_NUMBER ELSE None,
        !.custom_number_monthly_cost =
            IF phone_config \in {"custom_only", "both"} THEN 15 ELSE 0]

onboard_business(business_id, phone_config) ==
    /\ IF ~BusinessExists(business_id)
       THEN /\ last' = Last("onboard_business", FALSE, None)
            /\ UNCHANGED businesses
       ELSE /\ businesses' = [businesses EXCEPT ![business_id] =
                                OnboardedBusiness(@, phone_config)]
            /\ last' = Last("onboard_business", FALSE, business_id)
    /\ UNCHANGED <<phone_numbers, conversations>>

Providers == {"twilio", "vonage"}

\* PhoneNumberInfo.monthly_cost as the providers' searches set it.
MonthlyCost(provider) == IF provider = "twilio" THEN 15 ELSE 12

\* provider_success is the carrier's answer to provider.provision_number.
provision_number(business_id, number, provider, provider_success) ==
    LET row == NewRow(business_id, number, FALSE, "active", None)
        answer(raised, success) == Last("provision_number", raised, success)
    IN
    /\ UNCHANGED conversations
    /\ IF provider \notin Providers \/ ~provider_success
       THEN /\ last' = answer(FALSE, FALSE)
            /\ UNCHANGED <<businesses, phone_numbers>>
       ELSE IF ~InsertAllowed(row)
       THEN /\ last' = answer(TRUE, FALSE)
            /\ UNCHANGED <<businesses, phone_numbers>>
       ELSE /\ phone_numbers' = Append(phone_numbers, row)
            /\ businesses' = [businesses EXCEPT
                   ![business_id].custom_phone_number = number,
                   ![business_id].custom_number_monthly_cost =
                       MonthlyCost(provider)]
            /\ last' = answer(FALSE, TRUE)

\* extension_code is what random.choices(string.digits, k=4) drew.
setup_existing_number(business_id, existing_number, extension_code) ==
    LET row == NewRow(business_id, existing_number, FALSE, "provisioning",
                      extension_code) IN
    /\ UNCHANGED conversations
    /\ IF ~InsertAllowed(row)
       THEN /\ last' = Last("setup_existing_number", TRUE, None)
            /\ UNCHANGED <<businesses, phone_numbers>>
       ELSE /\ phone_numbers' = Append(phone_numbers, row)
            /\ last' = Last("setup_existing_number", FALSE, extension_code)
            /\ UNCHANGED businesses

\* The row that Query.first() finds for the id and the tenant.
VerifiedRecord(business_id, phone_id) ==
    /\ phone_id \in 1..Len(phone_numbers)
    /\ phone_numbers[phone_id].business_id = business_id

VerificationMatches(row, business_id, verification_code) ==
    /\ row.business_id = business_id
    /\ verification_code = row.extension_code

\* A row written by provision_number or by PhoneManager has no metadata:
\* phone_record.metadata.get raises AttributeError on it.
verify_existing_number(business_id, phone_id, verification_code) ==
    /\ UNCHANGED conversations
    /\ IF ~VerifiedRecord(business_id, phone_id)
       THEN /\ last' = Last("verify_existing_number", FALSE, FALSE)
            /\ UNCHANGED <<businesses, phone_numbers>>
       ELSE IF phone_numbers[phone_id].extension_code = None
       THEN /\ last' = Last("verify_existing_number", TRUE, "AttributeError")
            /\ UNCHANGED <<businesses, phone_numbers>>
       ELSE IF VerificationMatches(phone_numbers[phone_id], business_id,
                                   verification_code)
       THEN /\ phone_numbers' = [phone_numbers EXCEPT
                                    ![phone_id].status = "active",
                                    ![phone_id].activated = TRUE]
            /\ businesses' = [businesses EXCEPT
                   ![business_id].custom_phone_number =
                       phone_numbers[phone_id].phone_number]
            /\ last' = Last("verify_existing_number", FALSE, TRUE)
       ELSE /\ last' = Last("verify_existing_number", FALSE, FALSE)
            /\ UNCHANGED <<businesses, phone_numbers>>

---------------------------------------------------------------------------
(* Inbound call resolution *)

\* Query.first() carries no ORDER BY: any matching row may be the one
\* returned.
ActiveByExtension(extension) ==
    {r \in Rows : r.extension_code = extension /\ r.status = "active"}

ActiveByNumber(to_number) ==
    {r \in Rows : r.phone_number = to_number /\ r.status = "active"}

\* MultiProviderPhoneManager.route_incoming_call: the set of values the call
\* can return (None when no row matches).
RouteIncomingCall(to_number, extension) ==
    IF extension # None /\ ActiveByExtension(extension) # {}
    THEN {r.business_id : r \in ActiveByExtension(extension)}
    ELSE IF ActiveByNumber(to_number) # {}
    THEN {r.business_id : r \in ActiveByNumber(to_number)}
    ELSE {None}

route_incoming_call(to_number, extension) ==
    /\ \E result \in RouteIncomingCall(to_number, extension) :
          last' = Last("route_incoming_call", FALSE, result)
    /\ UNCHANGED <<businesses, phone_numbers, conversations>>

\* PhoneManager.route_incoming_call
PhoneManagerRoute(to_number) ==
    LET custom == {r \in Rows : /\ r.phone_number = to_number
                                /\ ~r.is_universal
                                /\ r.status = "active"}
    IN
    IF to_number = UNIVERSAL_BOT_NUMBER THEN {None}
    ELSE IF custom # {} THEN {r.business_id : r \in custom}
    ELSE {None}

PhoneManager_route_incoming_call(to_number) ==
    /\ \E result \in PhoneManagerRoute(to_number) :
          last' = Last("PhoneManager.route_incoming_call", FALSE, result)
    /\ UNCHANGED <<businesses, phone_numbers, conversations>>

\* Python's `a or b` on optional strings.
Or(a, b) == IF a # None THEN a ELSE b

\* POST /voice/incoming
handle_incoming_call(To, SipHeader_X_Extension, X_Extension) ==
    LET extension == Or(SipHeader_X_Extension, X_Extension) IN
    /\ \E business_id \in RouteIncomingCall(To, extension) :
          last' = Last("handle_incoming_call", FALSE,
                       [business_id |-> business_id,
                        greeting |->
                            IF business_id # None
                            THEN IF BusinessExists(business_id)
                                 THEN "welcome_business" ELSE "welcome"
                            ELSE "which_cafe"])
    /\ UNCHANGED <<businesses, phone_numbers, conversations>>

---------------------------------------------------------------------------
(* Human transfer *)

\* MultiProviderPhoneManager.transfer_to_human: the mock answers True.
transfer_to_human(business_id, call_sid) == TRUE

\* The endpoint without the check of the plan.
HumanTransferAnyPlan(current_business, business_id, call_sid) ==
    IF call_sid = None
    THEN [status |-> 400, bridge |-> <<>>]
    ELSE IF current_business # business_id
    THEN [status |-> 403, bridge |-> <<>>]
    ELSE LET success == transfer_to_human(business_id, call_sid) IN
         [status |-> IF success THEN 200 ELSE 500,
          bridge |-> <<[business_id |-> business_id, call_sid |-> call_sid,
                        success |-> success]>>]

\* POST /business/{business_id}/transfer-to-human, as the sequence of bridge
\* calls it makes and the HTTP status it answers.
HumanTransfer(current_business, business_id, call_sid) ==
    IF call_sid = None
    THEN [status |-> 400, bridge |-> <<>>]
    ELSE IF current_business # business_id
    THEN [status |-> 403, bridge |-> <<>>]
    ELSE IF Business(current_business).phone_config = "universal_only"
    THEN [status |-> 400, bridge |-> <<>>]
    ELSE LET success == transfer_to_human(business_id, call_sid) IN
         [status |-> IF success THEN 200 ELSE 500,
          bridge |-> <<[business_id |-> business_id, call_sid |-> call_sid,
                        success |-> success]>>]

initiate_human_transfer(current_business, business_id, call_sid) ==
    /\ BusinessExists(current_business)
    /\ LET r == HumanTransfer(current_business, business_id, call_sid) IN
       last' = Last("initiate_human_transfer", FALSE, r)
    /\ UNCHANGED <<businesses, phone_numbers, conversations>>

---------------------------------------------------------------------------
(* PhoneManager (universal registration and custom numbers) *)

\* One unit of work on the SQLAlchemy session: the tables with the pending
\* changes (biz, rows), the tables as last committed (cbiz, crows), and
\* whether an exception has escaped.
Work(biz, rows, cbiz, crows) ==
    [biz |-> biz, rows |-> rows, cbiz |-> cbiz, crows |-> crows,
     failed |-> FALSE, raised |-> FALSE]

UniqueIn(rows, number) ==
    \A i \in 1..Len(rows) : rows[i].phone_number # number

RowIn(rows, business_id, phone_number, is_universal) ==
    [id |-> Len(rows) + 1,
     business_id |-> business_id,
     phone_number |-> phone_number,
     is_universal |-> is_universal,
     status |-> "active",
     extension_code |-> None,
     activated |-> TRUE]

\* db.add(row); db.commit(): the unique column rejects a second row with the
\* number, and the failed commit rolls the pending changes back.
AddAndCommit(w, row) ==
    IF UniqueIn(w.rows, row.phone_number)
    THEN [w EXCEPT !.rows = Append(w.rows, row),
                   !.crows = Append(w.rows, row),
                   !.cbiz = w.biz]
    ELSE [w EXCEPT !.rows = w.crows, !.biz = w.cbiz, !.failed = TRUE]

register_on_universal(w, business_id) ==
    IF \E i \in 1..Len(w.rows) :
          w.rows[i].business_id = business_id /\ w.rows[i].is_universal
    THEN w
    ELSE LET w1 == AddAndCommit(w, RowIn(w.rows, business_id,
                                         UNIVERSAL_BOT_NUMBER, TRUE))
         IN [w1 EXCEPT !.raised = w1.failed]

\* After a failed commit the session refuses further work until rollback()
\* (PendingRollbackError): the db.add of a second attempt raises.
create_mock_number(w, business_id, mock_number) ==
    IF w.failed THEN [w EXCEPT !.raised = TRUE]
    ELSE LET w0 == [w EXCEPT
                       !.biz[business_id].custom_phone_number = mock_number]
             w1 == AddAndCommit(w0, RowIn(w.rows, business_id, mock_number,
                                          FALSE))
         IN [w1 EXCEPT !.raised = w1.failed]

\* carrier is what Twilio answered: "purchased" (a number was bought, or the
\* search was empty and a generated number is used in its place) or "error"
\* (the client raised, and the handler falls back to a generated number).
\* number is the number bought or generated.
provision_custom_number(w, business_id, carrier, number) ==
    IF carrier = "error"
    THEN create_mock_number(w, business_id, number)
    ELSE LET w0 == [w EXCEPT
                       !.biz[business_id].custom_phone_number = number]
             w1 == AddAndCommit(w0, RowIn(w.rows, business_id, number, FALSE))
         IN IF ~w1.failed THEN w1
            ELSE create_mock_number(w1, business_id, number)

OnboardCost(phone_config, wants_whatsapp) ==
    IF phone_config = "universal_only" THEN 0
    ELSE (IF phone_config = "custom_only" THEN 15 ELSE 20)
         + (IF wants_whatsapp THEN 10 ELSE 0)

PhoneManagerOnboard(business_id, phone_config, wants_whatsapp, carrier, number) ==
    LET w0 == Work([businesses EXCEPT
                       ![business_id].phone_config = phone_config],
                   phone_numbers, businesses, phone_numbers)
        w1 == IF phone_config = "universal_only"
              THEN register_on_universal(w0, business_id)
              ELSE IF phone_config = "custom_only"
              THEN provision_custom_number(w0, business_id, carrier, number)
              ELSE LET u == register_on_universal(w0, business_id) IN
                   IF u.raised THEN u
                   ELSE provision_custom_number(u, business_id, carrier,
                                                number)
    IN IF w1.raised
       THEN [raised |-> TRUE, biz |-> w1.cbiz, rows |-> w1.crows]
       ELSE [raised |-> FALSE,
             biz |-> [w1.biz EXCEPT
                        ![business_id].custom_number_monthly_cost =
                            OnboardCost(phone_config, wants_whatsapp)],
             rows |-> w1.rows]

PhoneManager_onboard_business(business_id, phone_config, wants_whatsapp, carrier, number) ==
    /\ BusinessExists(business_id)
    /\ UNCHANGED conversations
    /\ LET r == PhoneManagerOnboard(business_id, phone_config, wants_whatsapp,
                                    carrier, number)
       IN /\ businesses' = r.biz
          /\ phone_numbers' = r.rows
          /\ last' = Last("PhoneManager.onboard_business", r.raised,
                           ~r.raised)

---------------------------------------------------------------------------
(* The number registry and the calls routed through it *)

Carriers == {"purchased", "error"}

NextRegistry ==
    \/ \E b \in BusinessIds, n \in DedicatedNumbers,
          p \in Providers \cup {"other"}, ok \in BOOLEAN :
          provision_number(b, n, p, ok)
    \/ \E b \in BusinessIds, n \in DedicatedNumbers, e \in ExtensionCodes :
          setup_existing_number(b, n, e)
    \/ \E b \in BusinessIds, i \in 1..(MaxNumber + 1), e \in ExtensionCodes :
          verify_existing_number(b, i, e)
    \/ \E b \in BusinessIds, c \in PhoneNumberType, w \in {FALSE},
          k \in Carriers, n \in DedicatedNumbers :
          PhoneManager_onboard_business(b, c, w, k, n)
    \/ \E n \in PhoneNumbers, e \in ExtensionCodes \cup {None} :
          route_incoming_call(n, e)
    \/ \E n \in PhoneNumbers : PhoneManager_route_incoming_call(n)
    \/ \E n \in PhoneNumbers, e1 \in ExtensionCodes \cup {None},
          e2 \in ExtensionCodes \cup {None} : handle_incoming_call(n, e1, e2)

SpecRegistry == Init /\ [][NextRegistry]_vars

\* C1: a call to the universal number that carries no extension matching an
\* active record is resolved to None by route_incoming_call, in every state
\* of the registry.
C1_UniversalNumberUnresolved ==
    [][\A e \in ExtensionCodes \cup {None} :
          (/\ last'.op = "route_incoming_call"
           /\ (e = None \/ ActiveByExtension(e) = {})
           /\ route_incoming_call(UNIVERSAL_BOT_NUMBER, e))
          => last'.result = None]_vars

\* C2: no two active records that are not universal registrations carry the
\* same phone number.
C2_OneActiveRecordPerNumber ==
    \A i, j \in 1..Len(phone_numbers) :
        (/\ i # j
         /\ phone_numbers[i].status = "active"
         /\ phone_numbers[j].status = "active"
         /\ ~phone_numbers[i].is_universal
         /\ ~phone_numbers[j].is_universal)
        => phone_numbers[i].phone_number # phone_numbers[j].phone_number

\* A tenant asked for a number that already has an active record and the
\* insert was rejected.
C2_Witness ==
    /\ last.op = "provision_number"
    /\ last.raised
    /\ \E r \in Rows : r.status = "active" /\ ~r.is_universal

---------------------------------------------------------------------------
(* Plans and the human transfer *)

CallSids == {None, 1}

NextTransfer ==
    \/ \E b \in BusinessIds, c \in PhoneNumberType : onboard_business(b, c)
    \/ \E b \in BusinessIds, n \in DedicatedNumbers, p \in Providers :
          provision_number(b, n, p, TRUE)
    \/ \E c \in BusinessIds, b \in BusinessIds, s \in CallSids :
          initiate_human_transfer(c, b, s)

SpecTransfer == Init /\ [][NextTransfer]_vars

\* C8: for a request that carries a call id and names the requesting tenant
\* itself, a universal_only tenant is answered 400 and the bridge is not
\* called; a custom_only or both tenant has the bridge called exactly once,
\* for that tenant and call, and is answered 200 when the bridge succeeded
\* and 500 when it failed.  No request calls the bridge more than once.
C8_BridgeOnlyForCustomNumbers ==
    [][\A c, b \in BusinessIds, s \in CallSids :
          (/\ last'.op = "initiate_human_transfer"
           /\ initiate_human_transfer(c, b, s))
          => LET r == last'.result IN
             /\ Len(r.bridge) <= 1
             /\ (s # None /\ c = b) =>
                   IF Business(c).phone_config = "universal_only"
                   THEN r.status = 400 /\ r.bridge = <<>>
                   ELSE /\ Len(r.bridge) = 1
                        /\ r.bridge[1].business_id = c
                        /\ r.bridge[1].call_sid = s
                        /\ r.status = IF r.bridge[1].success
                                      THEN 200 ELSE 500]_vars

\* A custom_only or both tenant was transferred, and a universal_only tenant
\* is registered next to it.
C8_Witness ==
    /\ last.op = "initiate_human_transfer"
    /\ last.result.status = 200
    /\ Len(last.result.bridge) = 1
    /\ \E b \in BusinessIds : Business(b).phone_config = "universal_only"

---------------------------------------------------------------------------
(* Text *)

\* A str is a sequence of one-character strings.
UpperCase == <<"A", "B", "C", "D", "E", "F", "G", "H", "I", "J", "K", "L", "M",
               "N", "O", "P", "Q", "R", "S", "T", "U", "V", "W", "X", "Y", "Z">>

LowerCase == <<"a", "b", "c", "d", "e", "f", "g", "h", "i", "j", "k", "l", "m",
               "n", "o", "p", "q", "r", "s", "t", "u", "v", "w", "x", "y", "z">>

LowerChar(c) ==
    IF \E i \in 1..Len(UpperCase) : UpperCase[i] = c
    THEN LowerCase[CHOOSE i \in 1..Len(UpperCase) : UpperCase[i] = c]
    ELSE c

\* str.lower()
Lower(str) == [i \in 1..Len(str) |-> LowerChar(str[i])]

\* `sub in str`
Contains(sub, str) ==
    \E k \in 0..(Len(str) - Len(sub)) :
        \A i \in 1..Len(sub) : str[k + i] = sub[i]

---------------------------------------------------------------------------
(* ModelRouter *)

ModelType == {"groq", "claude", "gpt4", "gpt3.5"}

QueryComplexity == {"simple", "moderate", "complex", "multilingual"}

\* model_costs, in thousandths
model_costs(model) ==
    IF model = "groq" THEN 1
    ELSE IF model = "claude" THEN 10
    ELSE IF model = "gpt4" THEN 20
    ELSE 2

NoIntent == "none"

simple_intents == {"menu_inquiry", "price_check", "hours_inquiry"}

simple_keywords ==
    {<<"m", "e", "n", "u">>,
     <<"p", "r", "i", "c", "e">>,
     <<"c", "o", "s", "t">>,
     <<"h", "o", "u", "r", "s">>,
     <<"o", "p", "e", "n">>,
     <<"c", "l", "o", "s", "e">>}

complex_indicators ==
    {<<"b", "u", "t">>,
     <<"e", "x", "c", "e", "p", "t">>,
     <<"w", "i", "t", "h", "o", "u", "t">>,
     <<"i", "n", "s", "t", "e", "a", "d">>,
     <<"m", "o", "d", "i", "f", "y">>,
     <<"c", "h", "a", "n", "g", "e">>,
     <<"a", "l", "l", "e", "r", "g", "i", "c">>,
     <<"i", "n", "t", "o", "l", "e", "r", "a", "n", "t">>,
     <<"s", "p", "e", "c", "i", "a", "l">>,
     <<"c", "o", "m", "p", "l", "a", "i", "n", "t">>}

\* The classification with the keyword tests ahead of the language test.
AssessComplexityKeywordsFirst(query, intent, language) ==
    LET query_lower == Lower(query) IN
    IF intent \in simple_intents THEN "simple"
    ELSE IF \E keyword \in simple_keywords : Contains(keyword, query_lower)
    THEN "simple"
    ELSE IF \E indicator \in complex_indicators :
               Contains(indicator, query_lower)
    THEN "complex"
    ELSE IF language # "en" THEN "multilingual"
    ELSE "moderate"

\* _assess_complexity
AssessComplexity(query, intent, language) ==
    LET query_lower == Lower(query) IN
    IF language # "en" THEN "multilingual"
    ELSE IF intent \in simple_intents THEN "simple"
    ELSE IF \E keyword \in simple_keywords : Contains(keyword, query_lower)
    THEN "simple"
    ELSE IF \E indicator \in complex_indicators :
               Contains(indicator, query_lower)
    THEN "complex"
    ELSE "moderate"

\* _select_model
SelectModel(complexity, language) ==
    IF complexity = "simple" THEN "groq"
    ELSE IF complexity = "complex" THEN "claude"
    ELSE IF complexity = "multilingual" THEN "gpt4"
    ELSE "groq"

fallback_chains(primary_model) ==
    IF primary_model = "groq" THEN <<"groq", "gpt3.5", "claude">>
    ELSE IF primary_model = "claude" THEN <<"claude", "gpt4", "gpt3.5">>
    ELSE IF primary_model = "gpt4" THEN <<"gpt4", "claude", "gpt3.5">>
    ELSE <<"gpt3.5", "groq", "claude">>

Apology == [kind |-> "apology", model |-> "gpt3.5"]

Generated(model) == [kind |-> "generated", model |-> model]

\* One call of _call_model and whether it returned (ok) or raised.
Call(model, ok) == [model |-> model, ok |-> ok]

\* The loop over the chain from position i on.  failing: the backends whose
\* call raises for this message; calls: the calls made so far.
RECURSIVE TryChain(_, _, _, _)
TryChain(chain, i, failing, calls) ==
    IF i > Len(chain)
    THEN [text |-> Apology, model |-> "gpt3.5", calls |-> calls]
    ELSE IF chain[i] \in failing
    THEN TryChain(chain, i + 1, failing, Append(calls, Call(chain[i], FALSE)))
    ELSE [text |-> Generated(chain[i]), model |-> chain[i],
          calls |-> Append(calls, Call(chain[i], TRUE))]

\* The loop leaving at the first failure.
ExecuteWithoutFallback(primary_model, failing) ==
    LET chain == fallback_chains(primary_model) IN
    IF chain[1] \in failing
    THEN [text |-> Apology, model |-> "gpt3.5",
          calls |-> <<Call(chain[1], FALSE)>>]
    ELSE [text |-> Generated(chain[1]), model |-> chain[1],
          calls |-> <<Call(chain[1], TRUE)>>]

\* The chain called as a fan-out: every backend of it is invoked, and the
\* answer of the first that returned is used.
ExecuteWithFanOut(primary_model, failing) ==
    LET chain == fallback_chains(primary_model)
        calls == [k \in 1..Len(chain) |->
                     Call(chain[k], chain[k] \notin failing)]
        answered == {k \in 1..Len(chain) : calls[k].ok}
    IN IF answered = {}
       THEN [text |-> Apology, model |-> "gpt3.5", calls |-> calls]
       ELSE LET first == CHOOSE k \in answered : \A l \in answered : k <= l
            IN [text |-> Generated(chain[first]), model |-> chain[first],
                calls |-> calls]

\* _execute_with_fallback
ExecuteWithFallback(primary_model, failing) ==
    TryChain(fallback_chains(primary_model), 1, failing, <<>>)

\* route_query charging the cost of the backend it selected first.
RouteQueryPrimaryCost(query, intent, language, failing) ==
    LET complexity == AssessComplexity(query, intent, language)
        primary_model == SelectModel(complexity, language)
        response == ExecuteWithFallback(primary_model, failing)
    IN [response |-> response.text,
        model_used |-> response.model,
        cost |-> model_costs(primary_model),
        complexity |-> complexity,
        calls |-> response.calls]

\* route_query, with the calls it made
RouteQuery(query, intent, language, failing) ==
    LET complexity == AssessComplexity(query, intent, language)
        primary_model == SelectModel(complexity, language)
        response == ExecuteWithFallback(primary_model, failing)
    IN [response |-> response.text,
        model_used |-> response.model,
        cost |-> model_costs(response.model),
        complexity |-> complexity,
        calls |-> response.calls]

\* What the caller of route_query passed, kept with the answer.
Request(query, intent, language) ==
    [query |-> query, intent |-> intent, language |-> language]

route_query(query, intent, language, failing) ==
    /\ last' = Last("route_query", FALSE,
                     [request |-> Request(query, intent, language),
                      answer |-> RouteQuery(query, intent, language, failing)])
    /\ UNCHANGED <<businesses, phone_numbers, conversations>>

Queries ==
    {<<"M", "E", "N", "U">>,
     <<"h", "i">>,
     <<"C", "h", "a", "n", "g", "e", " ", "i", "t">>,
     <<"M", "e", "n", "u", " ", "b", "u", "t", " ", "n", "o", " ", "m", "i", "l", "k">>,
     <<"l", "a", "b", "d", "i", "e", "n">>}

Intents == simple_intents \cup {NoIntent, "order_placement"}

Languages == {"en", "lv", "auto"}

NextRouter ==
    \E q \in Queries, i \in Intents, l \in Languages,
       failing \in SUBSET ModelType : route_query(q, i, l, failing)

SpecRouter == Init /\ [][NextRouter]_vars

\* C9: when every call the router made for a message failed, the answer is
\* the static apology, nothing is raised, and the calls are those of the
\* selected chain, one per backend and in the chain's order.
C9_AllFailApologyOnce ==
    (/\ last.op = "route_query"
     /\ \A k \in 1..Len(last.result.answer.calls) :
           ~last.result.answer.calls[k].ok)
    => LET answer == last.result.answer
           chain == fallback_chains(
                        SelectModel(answer.complexity,
                                    last.result.request.language))
       IN /\ ~last.raised
          /\ answer.response = Apology
          /\ answer.cost = model_costs("gpt3.5")
          /\ Len(answer.calls) = Len(chain)
          /\ \A k \in 1..Len(chain) : answer.calls[k].model = chain[k]

\* The three backends of a chain were called, each failed, and the apology
\* was returned.
C9_Witness ==
    /\ last.op = "route_query"
    /\ Len(last.result.answer.calls) = 3
    /\ \A k \in 1..3 : ~last.result.answer.calls[k].ok
    /\ last.result.answer.response = Apology

\* C10: a message whose language is not "en" is classified multilingual,
\* whatever its text and intent.
C10_NonDefaultLanguageIsMultilingual ==
    (last.op = "route_query" /\ last.result.request.language # "en")
    => last.result.answer.complexity = "multilingual"

\* A message in another language with a simple intent, a simple keyword and
\* a complexity marker in its text was classified.
C10_Witness ==
    /\ last.op = "route_query"
    /\ last.result.request.language = "lv"
    /\ last.result.request.intent \in simple_intents
    /\ \E keyword \in simple_keywords :
          Contains(keyword, Lower(last.result.request.query))
    /\ \E indicator \in complex_indicators :
          Contains(indicator, Lower(last.result.request.query))
    /\ last.result.answer.complexity = "multilingual"

---------------------------------------------------------------------------
(* Tenants as the bots see them *)

\* Business.name
business_name(b) ==
    IF b = 1 THEN <<"S", "u", "n", "r", "i", "s", "e">>
    ELSE IF b = 2 THEN <<"B", "l", "u", "e", " ", "C", "u", "p">>
    ELSE <<"N", "o", "r", "d">>

\* `business.name.lower() in message.lower()`
Names(business_id, message) ==
    Contains(Lower(business_name(business_id)), Lower(message))

\* _find_businesses_with_universal_access
FindBusinessesWithUniversalAccess ==
    {b \in BusinessIds : /\ BusinessExists(b)
                         /\ Business(b).is_active
                         /\ Business(b).phone_config \in {"universal_only", "both"}}

\* A tenant record is hard-deleted once no number is assigned to it.
delete_business(business_id) ==
    /\ BusinessExists(business_id)
    /\ \A r \in Rows : r.business_id # business_id
    /\ businesses' = [businesses EXCEPT ![business_id].exists = FALSE]
    /\ last' = Last("delete_business", FALSE, business_id)
    /\ UNCHANGED <<phone_numbers, conversations>>

---------------------------------------------------------------------------
(* ChatMemory *)

\* _load_context: the stored context, or the default one.
LoadContext(session_id) ==
    IF contexts[session_id].stored
    THEN contexts[session_id]
    ELSE [stored |-> FALSE, selected_business |-> None, nearby_cafes |-> {}]

\* The value of a call of an `async def` that is not awaited.
Coroutine == -1

\* Python's truth value of an optional id (or of a coroutine object).
Truthy(value) == value # None

\* json.dumps raises TypeError on a coroutine object.
JsonSerializable(context) == context.selected_business # Coroutine

\* _save_context: setex of the JSON text.
SaveContext(context) == [context EXCEPT !.stored = TRUE]

\* add_message: lpush on the history list.
LPush(history, role) == <<role>> \o history

\* The context key reaches the 24 hours of its setex and Redis drops it.
expire_context(session_id) ==
    /\ contexts[session_id].stored
    /\ contexts' = [contexts EXCEPT ![session_id] = NoKey]
    /\ last' = Last("expire_context", FALSE, session_id)
    /\ timers' = [timers EXCEPT ![session_id].context = 0]
    /\ UNCHANGED <<businesses, phone_numbers, histories, active_sessions, memories, handlings, walks, orders>>

\* The history key reaches the 24 hours of its last expire() and is dropped.
expire_history(session_id) ==
    /\ histories[session_id] # <<>>
    /\ histories' = [histories EXCEPT ![session_id] = <<>>]
    /\ last' = Last("expire_history", FALSE, session_id)
    /\ timers' = [timers EXCEPT ![session_id].history = 0]
    /\ UNCHANGED <<businesses, phone_numbers, contexts, active_sessions, memories, handlings, walks, orders>>

---------------------------------------------------------------------------
(* UniversalBot *)

\* The dict a handler returns: state, the prompt the text was generated
\* from, the text, the tenants whose names are suggested, and the tenant of
\* business_context.
Reply(state, prompt, ai_response, suggested_actions, business_context) ==
    [state |-> state,
     prompt |-> prompt,
     message |-> ai_response.response,
     model_used |-> ai_response.model_used,
     suggested_actions |-> suggested_actions,
     business_context |-> business_context]

\* cafe_names[:3] of a listing whose order the query leaves open.
FirstThree(cafes) ==
    IF Cardinality(cafes) <= 3 THEN {cafes}
    ELSE {some \in SUBSET cafes : Cardinality(some) = 3}

\* The selection that binds a listed tenant although the message names none.
AiHandleCafeSelectionAlwaysBinds(message, context, failing) ==
    LET cafes == FindBusinessesWithUniversalAccess
        ai_response == RouteQuery(message, NoIntent, "auto", failing)
    IN IF cafes = {}
       THEN {[context |-> context,
              response |-> Reply("no_cafes", "no_cafes", ai_response, {}, None)]}
       ELSE {[context |->
                  SaveContext([context EXCEPT !.selected_business = cafe]),
              response |->
                  Reply("cafe_selected", "welcome", ai_response, {}, None)] :
             cafe \in cafes}

\* _ai_handle_cafe_selection: the outcomes it can have (the order of the
\* listing is left open by the query), each with the context as it is
\* afterwards and the reply.
AiHandleCafeSelection(message, context, failing) ==
    LET cafes == FindBusinessesWithUniversalAccess
        named == {cafe \in cafes : Names(cafe, message)}
        ai_response == RouteQuery(message, NoIntent, "auto", failing)
    IN IF cafes = {}
       THEN {[context |-> context,
              response |-> Reply("no_cafes", "no_cafes", ai_response, {}, None)]}
       ELSE IF named # {}
       THEN {[context |->
                  SaveContext([context EXCEPT !.selected_business = cafe]),
              response |->
                  Reply("cafe_selected", "welcome", ai_response, {}, None)] :
             cafe \in named}
       ELSE {[context |-> SaveContext([context EXCEPT !.nearby_cafes = cafes]),
              response |->
                  Reply("selecting_cafe", "choose", ai_response, some, None)] :
             some \in FirstThree(cafes)}

\* The conversation whose requests say the language is English.
AiHandleBusinessConversationInEnglish(message, context, failing) ==
    LET business_id == context.selected_business
        ai_response == RouteQuery(message, NoIntent, "en", failing)
    IN IF ~BusinessExists(business_id)
       THEN [context |-> context,
             response |-> Reply("none", "error", ai_response, {}, None)]
       ELSE [context |-> context,
             response |->
                 Reply("none", "conversation", ai_response, {}, business_id)]

\* _ai_handle_business_conversation
AiHandleBusinessConversation(message, context, failing) ==
    LET business_id == context.selected_business
        ai_response == RouteQuery(message, NoIntent, "auto", failing)
    IN IF ~BusinessExists(business_id)
       THEN [context |-> context,
             response |-> Reply("none", "error", ai_response, {}, None)]
       ELSE [context |-> context,
             response |->
                 Reply("none", "conversation", ai_response, {}, business_id)]

\* The branches of _ai_handle_cafe_selection that call update_context, and
\* with it _save_context and its setex: the welcome and the matched name.
\* _ai_handle_business_conversation never calls it.
SavesContext(response) == response.prompt \in {"welcome", "choose"}

\* The timers of a session after a handled message: add_message renews the
\* history key with expire(), the context key is renewed only by a setex.
Touched(timer, saved) == [context |-> IF saved THEN TTL ELSE timer.context, history |-> TTL, idle |-> 0]

\* process_message.  The call of route_incoming_call is not awaited: what
\* is assigned to business_id is the coroutine object.
process_message(session_id, message, phone_number, failing) ==
    LET loaded == LoadContext(session_id)
        direct == phone_number # None /\ phone_number # UNIVERSAL_BOT_NUMBER
        business_id == IF direct THEN Coroutine ELSE None
        context == IF direct /\ Truthy(business_id)
                   THEN [loaded EXCEPT !.selected_business = business_id]
                   ELSE loaded
        history == LPush(histories[session_id], "user")
    IN
    /\ Len(histories[session_id]) + 2 <= MaxHistory
    /\ UNCHANGED <<businesses, phone_numbers, active_sessions, memories, handlings, walks, orders>>
    /\ IF direct /\ Truthy(business_id) /\ ~JsonSerializable(context)
       THEN /\ histories' = [histories EXCEPT ![session_id] = history]
            /\ timers' = [timers EXCEPT
                             ![session_id] = Touched(timers[session_id], FALSE)]
            /\ last' = Last("process_message", TRUE, "TypeError")
            /\ UNCHANGED contexts
       ELSE \E outcome \in
                 IF ~Truthy(context.selected_business)
                 THEN AiHandleCafeSelection(message, context, failing)
                 ELSE {AiHandleBusinessConversation(message, context,
                                                    failing)} :
               /\ contexts' = IF outcome.context.stored
                              THEN [contexts EXCEPT
                                       ![session_id] = outcome.context]
                              ELSE contexts
               /\ histories' = [histories EXCEPT
                                   ![session_id] = LPush(history, "assistant")]
               /\ timers' = [timers EXCEPT
                                ![session_id] =
                                    Touched(timers[session_id],
                                            SavesContext(outcome.response))]
               /\ last' = Last("process_message", FALSE, outcome.response)

Messages ==
    {<<"h", "e", "l", "l", "o">>,
     <<"I", " ", "w", "a", "n", "t", " ", "s", "u", "n", "r", "i", "s", "e">>,
     <<"B", "L", "U", "E", " ", "C", "U", "P">>,
     <<"s", "u", "n", "r", "i", "s", "e", " ", "o", "r", " ", "b", "l", "u", "e", " ", "c", "u", "p">>}

\* All backends answer, or none does.
Failures == {{}, ModelType}

NextBot ==
    \/ \E s \in SessionIds, m \in Messages,
          n \in {None} \cup PhoneNumbers, failing \in Failures :
          process_message(s, m, n, failing)
    \/ \E s \in SessionIds : expire_context(s)
    \/ \E s \in SessionIds : expire_history(s)
    \/ \E b \in BusinessIds, c \in PhoneNumberType : onboard_business(b, c)
    \/ \E b \in BusinessIds : delete_business(b)

SpecBot == Init /\ [][NextBot]_vars

\* The tenants eligible for the universal number that a text names.
EligibleNamed(message) ==
    {b \in FindBusinessesWithUniversalAccess : Names(b, message)}

\* C6: a message handled while no tenant is bound, and that names no
\* eligible tenant, leaves the stored context without a bound tenant; with
\* no eligible tenant the reply is the one generated from the "no cafes
\* available, try again later" prompt (state no_cafes) and suggests nothing,
\* otherwise it is in state selecting_cafe and suggests the names of the
\* eligible tenants (at most three of them).
C6_NoMatchStaysUnbound ==
    [][\A s \in SessionIds, m \in Messages,
         n \in {None, UNIVERSAL_BOT_NUMBER}, failing \in Failures :
          (/\ last'.op = "process_message"
           /\ ~Truthy(LoadContext(s).selected_business)
           /\ EligibleNamed(m) = {}
           /\ process_message(s, m, n, failing))
          => /\ ~last'.raised
             /\ contexts'[s].stored => contexts'[s].selected_business = None
             /\ IF FindBusinessesWithUniversalAccess = {}
                THEN /\ last'.result.state = "no_cafes"
                     /\ last'.result.prompt = "no_cafes"
                     /\ last'.result.suggested_actions = {}
                ELSE /\ last'.result.state = "selecting_cafe"
                     /\ last'.result.suggested_actions # {}
                     /\ last'.result.suggested_actions
                            \subseteq FindBusinessesWithUniversalAccess
                     /\ Cardinality(last'.result.suggested_actions) <= 3
                     /\ Cardinality(FindBusinessesWithUniversalAccess) <= 3
                        => last'.result.suggested_actions =
                               FindBusinessesWithUniversalAccess]_vars

\* A message that named no tenant was answered with the list of eligible
\* tenants, and the stored context has no tenant bound.
C6_Witness ==
    /\ last.op = "process_message"
    /\ ~last.raised
    /\ last.result.state = "selecting_cafe"
    /\ last.result.suggested_actions # {}
    /\ \E s \in SessionIds :
          contexts[s].stored /\ contexts[s].selected_business = None

---------------------------------------------------------------------------
(* Messages that arrive on dedicated numbers *)

NextDedicated ==
    \/ \E b \in BusinessIds, n \in DedicatedNumbers :
          provision_number(b, n, "twilio", TRUE)
    \/ \E s \in SessionIds, m \in Messages,
          n \in {None} \cup PhoneNumbers, failing \in Failures :
          process_message(s, m, n, failing)
    \/ \E s \in SessionIds : expire_context(s)
    \/ \E s \in SessionIds : expire_history(s)

SpecDedicated == Init /\ [][NextDedicated]_vars

\* C7: the first message of a session, arriving on a dedicated number with
\* an active record, is handled without the selection handler and leaves
\* the record's tenant bound in the stored context.
C7_DedicatedNumberBindsTenant ==
    [][\A s \in SessionIds, m \in Messages, n \in DedicatedNumbers,
         failing \in Failures :
          (/\ last'.op = "process_message"
           /\ ~contexts[s].stored
           /\ histories[s] = <<>>
           /\ process_message(s, m, n, failing))
          => \A r \in ActiveByNumber(n) :
                /\ ~last'.raised
                /\ contexts'[s].stored
                /\ contexts'[s].selected_business = r.business_id
                /\ last'.result.prompt \in {"conversation", "error"}]_vars

---------------------------------------------------------------------------
(* UniversalWhatsAppService *)

\* The sender's phone number keys the session.
UserPhones == SessionIds

Session(business_id) == [stored |-> TRUE, business_id |-> business_id]

\* _handle_cafe_selection: the outcomes it can have (the first match of a
\* listing whose order the query leaves open), each with the session as it
\* is afterwards and the reply.
HandleCafeSelection(user_phone, message_text) ==
    LET listed == {b \in BusinessIds :
                      BusinessExists(b) /\ Business(b).is_active}
        named == {b \in listed : Names(b, message_text)}
    IN IF named # {}
       THEN {[session |-> Session(selected_business),
              response |-> [type |-> "text", message |-> "welcome",
                            business_id |-> selected_business]] :
             selected_business \in named}
       ELSE {[session |-> active_sessions[user_phone],
              response |-> [type |-> "interactive", message |-> "cafe_list",
                            business_id |-> None]]}

\* _handle_cafe_conversation
HandleCafeConversation(business_id, user_phone) ==
    IF ~BusinessExists(business_id)
    THEN [session |-> NoKey,
          response |-> [type |-> "text", message |-> "not_found",
                        business_id |-> None]]
    ELSE [session |-> active_sessions[user_phone],
          response |-> [type |-> "text", message |-> "conversation",
                        business_id |-> business_id]]

handle_universal_message(user_phone, message_text) ==
    /\ \E outcome \in
            IF ~active_sessions[user_phone].stored
            THEN HandleCafeSelection(user_phone, message_text)
            ELSE {HandleCafeConversation(
                      active_sessions[user_phone].business_id, user_phone)} :
          /\ active_sessions' = [active_sessions EXCEPT
                                    ![user_phone] = outcome.session]
          /\ last' = Last("handle_universal_message", FALSE, outcome.response)
    /\ UNCHANGED <<businesses, phone_numbers, contexts, histories, memories, handlings, timers, walks, orders>>

reset_session(user_phone) ==
    /\ active_sessions' = [active_sessions EXCEPT ![user_phone] = NoKey]
    /\ last' = Last("reset_session", FALSE, user_phone)
    /\ UNCHANGED <<businesses, phone_numbers, contexts, histories, memories, handlings, timers, walks, orders>>

NextWhatsApp ==
    \/ \E u \in UserPhones, m \in Messages : handle_universal_message(u, m)
    \/ \E u \in UserPhones : reset_session(u)
    \/ \E b \in BusinessIds, c \in PhoneNumberType : onboard_business(b, c)
    \/ \E b \in BusinessIds : delete_business(b)

SpecWhatsApp == Init /\ [][NextWhatsApp]_vars

\* C4: a message handled in a session that has a tenant bound leaves that
\* tenant bound, on the universal bot (stored context) and on the WhatsApp
\* service (session table) alike.
C4_BindingIsKept ==
    [][\A s \in SessionIds, m \in Messages :
          /\ (/\ last'.op = "process_message"
              /\ Truthy(LoadContext(s).selected_business)
              /\ \E n \in {None} \cup PhoneNumbers, failing \in Failures :
                    process_message(s, m, n, failing))
             => /\ contexts'[s].stored
                /\ contexts'[s].selected_business =
                       contexts[s].selected_business
          /\ (/\ last'.op = "handle_universal_message"
              /\ active_sessions[s].stored
              /\ handle_universal_message(s, m))
             => /\ active_sessions'[s].stored
                /\ active_sessions'[s].business_id =
                       active_sessions[s].business_id]_vars

\* C5: a message handled while no tenant is bound, and whose text names a
\* tenant eligible for the universal number, leaves such a tenant bound, on
\* the universal bot (stored context) and on the WhatsApp service (session
\* table) alike.
C5_NamedEligibleTenantIsBound ==
    [][\A s \in SessionIds, m \in Messages :
          /\ (/\ last'.op = "process_message"
              /\ ~Truthy(LoadContext(s).selected_business)
              /\ EligibleNamed(m) # {}
              /\ \E n \in {None, UNIVERSAL_BOT_NUMBER}, failing \in Failures :
                    process_message(s, m, n, failing))
             => /\ contexts'[s].stored
                /\ contexts'[s].selected_business \in EligibleNamed(m)
          /\ (/\ last'.op = "handle_universal_message"
              /\ ~active_sessions[s].stored
              /\ EligibleNamed(m) # {}
              /\ handle_universal_message(s, m))
             => /\ active_sessions'[s].stored
                /\ active_sessions'[s].business_id \in EligibleNamed(m)]_vars


---------------------------------------------------------------------------
(* ChatMemory objects *)

\* deque(maxlen=20)
ShortTermMaxLen == 20

\* _load_context with the started_at of the default context (LoadContext is
\* this function without that field, which process_message never reads).
load_context(session_id, utcnow) ==
    IF contexts[session_id].stored
    THEN contexts[session_id]
    ELSE [stored |-> FALSE, started_at |-> utcnow,
          selected_business |-> None, nearby_cafes |-> {}]

\* The dict get_context returns.
Dict(context) ==
    [started_at |-> context.started_at,
     selected_business |-> context.selected_business,
     nearby_cafes |-> context.nearby_cafes]

\* ChatMemory(session_id): the constructor, at the time utcnow.
ChatMemory(handle, session_id, utcnow) ==
    LET context == load_context(session_id, utcnow) IN
    /\ memories' = [memories EXCEPT ![handle] =
                       [alive |-> TRUE,
                        session_id |-> session_id,
                        short_term_memory |-> <<>>,
                        context |-> context]]
    /\ last' = Last("ChatMemory", FALSE,
                     [handle |-> handle, session_id |-> session_id,
                      context |-> Dict(context)])
    /\ UNCHANGED <<businesses, phone_numbers, contexts, histories,
                   active_sessions, handlings, timers, walks, orders>>

get_context(handle) ==
    /\ memories[handle].alive
    /\ last' = Last("get_context", FALSE,
                     [handle |-> handle,
                      session_id |-> memories[handle].session_id,
                      context |-> Dict(memories[handle].context)])
    /\ UNCHANGED <<businesses, phone_numbers, contexts, histories,
                   active_sessions, memories, handlings, timers, walks, orders>>

\* dict.update with a dict of one key
Updated(context, updates) ==
    IF updates.key = "selected_business"
    THEN [context EXCEPT !.selected_business = updates.value]
    ELSE [context EXCEPT !.nearby_cafes = updates.value]

update_context(handle, updates) ==
    LET session_id == memories[handle].session_id
        context == SaveContext(Updated(memories[handle].context, updates))
    IN
    /\ memories[handle].alive
    /\ memories' = [memories EXCEPT ![handle].context = context]
    /\ contexts' = [contexts EXCEPT ![session_id] = context]
    /\ timers' = [timers EXCEPT ![session_id].context = TTL]
    /\ last' = Last("update_context", FALSE, handle)
    /\ UNCHANGED <<businesses, phone_numbers, histories, active_sessions,
                   handlings, walks, orders>>

ChatMessage(role, content) == [role |-> role, content |-> content]

\* deque.append: the oldest entry leaves a full deque.
DequeAppend(deque, message) ==
    IF Len(deque) >= ShortTermMaxLen
    THEN Append(Tail(deque), message)
    ELSE Append(deque, message)

add_message(handle, role, content) ==
    LET session_id == memories[handle].session_id
        message == ChatMessage(role, content)
    IN
    /\ memories[handle].alive
    /\ Len(histories[session_id]) < MaxHistory
    /\ memories' = [memories EXCEPT ![handle].short_term_memory =
                       DequeAppend(@, message)]
    /\ histories' = [histories EXCEPT ![session_id] = LPush(@, message)]
    /\ timers' = [timers EXCEPT ![session_id].history = TTL]
    /\ last' = Last("add_message", FALSE, handle)
    /\ UNCHANGED <<businesses, phone_numbers, contexts, active_sessions,
                   handlings, walks, orders>>

\* The dicts the callers pass: {"selected_business": id} and
\* {"nearby_cafes": [...]}.
Update(key, value) == [key |-> key, value |-> value]

\* Objects that read and update the context of a session.
NextContext ==
    \/ \E h \in Handles, s \in SessionIds, t \in Times : ChatMemory(h, s, t)
    \/ \E h \in Handles : get_context(h)
    \/ \E h \in Handles, b \in BusinessIds :
          update_context(h, Update("selected_business", b))
    \/ \E h \in Handles :
          update_context(h, Update("nearby_cafes", BusinessIds))

SpecContext == Init /\ [][NextContext]_vars

\* C11: two reads of a session's context that follow one another with no
\* operation between them return equal contexts, when they go through the
\* same object (a read of an object, then get_context on it) and when they
\* go through two objects constructed one after the other for the session.
C11_ReadsAreEqual ==
    [][(/\ last.op \in {"ChatMemory", "get_context"}
        /\ last'.op \in {"ChatMemory", "get_context"}
        /\ last'.result.session_id = last.result.session_id
        /\ last'.op = "get_context" => last'.result.handle = last.result.handle
        /\ last'.op = "ChatMemory" => last.op = "ChatMemory")
       => last'.result.context = last.result.context]_vars

---------------------------------------------------------------------------
(* The short-term window and the durable log *)

\* seq[-n:]
MostRecent(seq, n) ==
    IF Len(seq) > n THEN SubSeq(seq, Len(seq) - n + 1, Len(seq)) ELSE seq

\* The entries of an lpush list, oldest first.
Reverse(seq) == [i \in 1..Len(seq) |-> seq[Len(seq) + 1 - i]]

get_conversation_history(handle, limit) ==
    /\ memories[handle].alive
    /\ last' = Last("get_conversation_history", FALSE,
                     MostRecent(memories[handle].short_term_memory, limit))
    /\ UNCHANGED <<businesses, phone_numbers, contexts, histories,
                   active_sessions, memories, handlings, timers, walks, orders>>

Roles == {"user", "assistant"}

Contents == {"hello", "welcome"}

\* The limits the callers pass (the default, and limit=5).
Limits == {5, 10}

\* Objects that append to a session, within the 24 hours of its log.
NextWindow ==
    \/ \E h \in Handles, s \in SessionIds : ChatMemory(h, s, 0)
    \/ \E h \in Handles, r \in Roles, c \in Contents : add_message(h, r, c)
    \/ \E h \in Handles, n \in Limits : get_conversation_history(h, n)

SpecWindow == Init /\ [][NextWindow]_vars

\* C13: after an append through any object of a session, the short-term
\* window of that object holds the most recent min(k, 20) of the k messages
\* appended to the session so far, oldest first.
C13_WindowHoldsRecentAppends ==
    [][\A h \in Handles, r \in Roles, c \in Contents :
          (last'.op = "add_message" /\ add_message(h, r, c))
          => memories'[h].short_term_memory =
                 MostRecent(Reverse(histories'[memories[h].session_id]),
                            ShortTermMaxLen)]_vars

---------------------------------------------------------------------------
(* Handlings of one session that overlap *)

\* process_message is a coroutine: it runs without interruption up to its
\* first suspension, the await of ModelRouter.route_query (whose call of the
\* selected backend is awaited), and the event loop runs other requests
\* until the answer arrives.  The objects of Redis and of the database are
\* called synchronously.

\* The handlings of a session that are suspended.
Suspended(session_id) ==
    {h \in Handles : handlings[h].alive
                     /\ handlings[h].session_id = session_id}

\* process_message from its start to the await of route_query: ChatMemory is
\* constructed (the context is loaded), the user's message is appended, the
\* tenants are read, and _ai_handle_cafe_selection has called update_context
\* already when the message names a tenant.
process_message_begin(handle, session_id, message, phone_number, failing) ==
    LET loaded == LoadContext(session_id)
        direct == phone_number # None /\ phone_number # UNIVERSAL_BOT_NUMBER
        business_id == IF direct THEN Coroutine ELSE None
        context == IF direct /\ Truthy(business_id)
                   THEN [loaded EXCEPT !.selected_business = business_id]
                   ELSE loaded
        history == LPush(histories[session_id], "user")
    IN
    /\ ~handlings[handle].alive
    /\ Len(histories[session_id])
           + Cardinality(Suspended(session_id)) + 2 <= MaxHistory
    /\ UNCHANGED <<businesses, phone_numbers, active_sessions, memories, walks, orders>>
    /\ histories' = [histories EXCEPT ![session_id] = history]
    /\ IF direct /\ Truthy(business_id) /\ ~JsonSerializable(context)
       THEN /\ timers' = [timers EXCEPT
                             ![session_id] = Touched(timers[session_id], FALSE)]
            /\ last' = Last("process_message", TRUE, "TypeError")
            /\ UNCHANGED <<contexts, handlings>>
       ELSE \E outcome \in
                 IF ~Truthy(context.selected_business)
                 THEN AiHandleCafeSelection(message, context, failing)
                 ELSE {AiHandleBusinessConversation(message, context,
                                                    failing)} :
               /\ contexts' = IF outcome.response.prompt = "welcome"
                              THEN [contexts EXCEPT
                                       ![session_id] = outcome.context]
                              ELSE contexts
               /\ handlings' = [handlings EXCEPT ![handle] =
                                   [alive |-> TRUE,
                                    session_id |-> session_id,
                                    outcome |-> outcome]]
               /\ timers' = [timers EXCEPT
                                ![session_id] =
                                    Touched(timers[session_id],
                                            outcome.response.prompt = "welcome")]
               /\ last' = Last("await route_query", FALSE, handle)

\* process_message from the answer of route_query to its return: when the
\* message named no tenant, _ai_handle_cafe_selection calls update_context
\* with the listing (the object saves its own copy of the context); the
\* reply is appended.
process_message_resume(handle) ==
    LET session_id == handlings[handle].session_id
        outcome == handlings[handle].outcome
    IN
    /\ handlings[handle].alive
    /\ contexts' = IF outcome.response.prompt = "choose"
                   THEN [contexts EXCEPT ![session_id] = outcome.context]
                   ELSE contexts
    /\ histories' = [histories EXCEPT ![session_id] = LPush(@, "assistant")]
    /\ handlings' = [handlings EXCEPT ![handle] = NoObject]
    /\ timers' = [timers EXCEPT
                     ![session_id] =
                         Touched(timers[session_id],
                                 outcome.response.prompt = "choose")]
    /\ last' = Last("process_message", FALSE, outcome.response)
    /\ UNCHANGED <<businesses, phone_numbers, active_sessions, memories, walks, orders>>

NextConcurrent ==
    \/ \E h \in Handles, s \in SessionIds, m \in Messages,
          n \in {None} \cup PhoneNumbers, failing \in Failures :
          process_message_begin(h, s, m, n, failing)
    \/ \E h \in Handles : process_message_resume(h)
    \/ \E b \in BusinessIds, c \in PhoneNumberType : onboard_business(b, c)

SpecConcurrent == Init /\ [][NextConcurrent]_vars

\* C12: the handlings of a session have the effect of running one after
\* the other.  When a handling returns, its reply is appended right after
\* a user message (in a serial run, its own), and the context it saves, if
\* it saves one, keeps the tenant that is bound in the stored context (a
\* handling that returns after the await updates only the listing).
C12_HandlingsAreSerialized ==
    [][\A h \in Handles :
          (last'.op = "process_message" /\ process_message_resume(h))
          => LET s == handlings[h].session_id IN
             /\ histories[s] # <<>> => Head(histories[s]) = "user"
             /\ contexts'[s] # contexts[s]
                => contexts'[s].selected_business =
                       LoadContext(s).selected_business]_vars

---------------------------------------------------------------------------
(* The fallback chains *)

\* C14: the chain of every backend starts with that backend, holds each of
\* the four backends exactly once, and lists the backends after the first
\* in non-decreasing cost.
C14_ChainsAreTotalCheapestFirst ==
    last.op = "route_query"
    => \A primary_model \in ModelType :
          LET chain == fallback_chains(primary_model) IN
          /\ chain[1] = primary_model
          /\ Len(chain) = Cardinality(ModelType)
          /\ {chain[i] : i \in 1..Len(chain)} = ModelType
          /\ \A i, j \in 2..Len(chain) :
                i < j => model_costs(chain[i]) <= model_costs(chain[j])

\* C15: the calls of one route_query follow the selected chain from its
\* first backend on, one after the other; every call but the last one
\* failed, so no backend is called after one that answered and a backend
\* other than the preferred one is called only after all those before it
\* in the chain have failed.
C15_ChainWalkIsSequential ==
    last.op = "route_query"
    => LET answer == last.result.answer
           chain == fallback_chains(
                        SelectModel(answer.complexity,
                                    last.result.request.language))
       IN /\ Len(answer.calls) \in 1..Len(chain)
          /\ \A k \in 1..Len(answer.calls) :
                /\ answer.calls[k].model = chain[k]
                /\ k < Len(answer.calls) => ~answer.calls[k].ok

\* The preferred backend failed, the second backend of the chain answered
\* and the third was not called.
C15_Witness ==
    /\ last.op = "route_query"
    /\ Len(last.result.answer.calls) = 2
    /\ ~last.result.answer.calls[1].ok
    /\ last.result.answer.calls[2].ok
    /\ last.result.answer.model_used = last.result.answer.calls[2].model

---------------------------------------------------------------------------
(* The voice endpoints *)

\* The rows the query of the forwarding handler matches: the extension code
\* alone is compared.
ByExtension(extension) == {r \in Rows : r.extension_code = extension}

\* POST /voice/forward.  Digits is the extension the caller's side entered
\* (None when the form has none).
handle_forwarding_request(Digits) ==
    /\ \E business_id \in
            IF Digits # None /\ ByExtension(Digits) # {}
            THEN {r.business_id : r \in ByExtension(Digits)}
            ELSE {None} :
          last' = Last("handle_forwarding_request", FALSE,
                       [business_id |-> business_id,
                        greeting |-> IF business_id # None
                                     THEN "connecting" ELSE "invalid"])
    /\ UNCHANGED <<businesses, phone_numbers, conversations>>

NextVoice ==
    \/ \E b \in BusinessIds, n \in DedicatedNumbers :
          provision_number(b, n, "twilio", TRUE)
    \/ \E b \in BusinessIds, n \in DedicatedNumbers, e \in ExtensionCodes :
          setup_existing_number(b, n, e)
    \/ \E b \in BusinessIds, i \in 1..(MaxNumber + 1), e \in ExtensionCodes :
          verify_existing_number(b, i, e)
    \/ \E n \in PhoneNumbers, e1 \in ExtensionCodes \cup {None},
          e2 \in ExtensionCodes \cup {None} : handle_incoming_call(n, e1, e2)
    \/ \E e \in ExtensionCodes \cup {None} : handle_forwarding_request(e)

SpecVoice == Init /\ [][NextVoice]_vars

\* The active records of a tenant that a call to to_number with extension
\* matches, by extension code or by number.
ActiveMatches(business_id, to_number, extension) ==
    {r \in Rows : /\ r.business_id = business_id
                  /\ r.status = "active"
                  /\ \/ extension # None /\ r.extension_code = extension
                     \/ to_number # None /\ r.phone_number = to_number}

C17_VerificationIsAllOrNothing ==
    [][\A b \in BusinessIds, i \in 1..(MaxNumber + 1), e \in ExtensionCodes :
          (/\ last'.op = "verify_existing_number"
           /\ verify_existing_number(b, i, e))
          => /\ ~last'.raised
             /\ last'.result
                <=> (/\ VerifiedRecord(b, i)
                     /\ e = phone_numbers[i].extension_code)
             /\ last'.result
                => /\ phone_numbers'[i].status = "active"
                   /\ phone_numbers'[i].activated
             /\ ~last'.result
                => UNCHANGED <<businesses, phone_numbers>>]_vars

---------------------------------------------------------------------------
(* Provisioning that the carrier fails *)

\* The records of dedicated numbers.
DedicatedRows(rows) ==
    {rows[i] : i \in {k \in 1..Len(rows) : ~rows[k].is_universal}}

\* C19: when the carrier fails the provisioning, the operation reports the
\* failure (provision_number answers success = False, the onboarding of
\* PhoneManager raises), no record of a dedicated number is created, and
\* the tenant's dedicated number and cost stay as they were.
C19_FailedProvisioningChangesNothing ==
    [][\A b \in BusinessIds, n \in DedicatedNumbers :
          /\ \A p \in Providers :
                (/\ last'.op = "provision_number"
                 /\ provision_number(b, n, p, FALSE))
                => /\ ~last'.raised /\ last'.result = FALSE
                   /\ UNCHANGED <<businesses, phone_numbers>>
          /\ \A c \in {"custom_only", "both"} :
                (/\ last'.op = "PhoneManager.onboard_business"
                 /\ PhoneManager_onboard_business(b, c, FALSE, "error", n))
                => /\ last'.raised
                   /\ DedicatedRows(phone_numbers')
                          = DedicatedRows(phone_numbers)
                   /\ Business(b).custom_phone_number
                          = businesses'[b].custom_phone_number
                   /\ Business(b).custom_number_monthly_cost
                          = businesses'[b].custom_number_monthly_cost]_vars

---------------------------------------------------------------------------
(* A bound tenant whose record is gone *)

\* C20: a message handled in a session whose bound tenant has no record is
\* answered with the apology (no reply about the tenant is generated),
\* nothing is raised, and the tenant stays bound, on the universal bot
\* (stored context) and on the WhatsApp service (session table) alike.
C20_MissingTenantKeepsBinding ==
    [][\A s \in SessionIds, m \in Messages :
          /\ (/\ last'.op = "process_message"
              /\ Truthy(LoadContext(s).selected_business)
              /\ ~BusinessExists(LoadContext(s).selected_business)
              /\ \E n \in {None, UNIVERSAL_BOT_NUMBER}, failing \in Failures :
                    process_message(s, m, n, failing))
             => /\ ~last'.raised
                /\ last'.result.prompt = "error"
                /\ last'.result.business_context = None
                /\ contexts'[s] = contexts[s]
          /\ (/\ last'.op = "handle_universal_message"
              /\ active_sessions[s].stored
              /\ ~BusinessExists(active_sessions[s].business_id)
              /\ handle_universal_message(s, m))
             => /\ ~last'.raised
                /\ last'.result.message = "not_found"
                /\ last'.result.business_id = None
                /\ active_sessions'[s] = active_sessions[s]]_vars

---------------------------------------------------------------------------
(* The tenants a selection can bind *)

\* C21: a message handled while no tenant is bound leaves bound, if any,
\* a tenant that is active and opted into the universal number at the time
\* of the message, on the universal bot (stored context) and on the
\* WhatsApp service (session table) alike.
C21_SelectionBindsEligibleOnly ==
    [][\A s \in SessionIds, m \in Messages :
          /\ (/\ last'.op = "process_message"
              /\ ~Truthy(LoadContext(s).selected_business)
              /\ \E n \in {None, UNIVERSAL_BOT_NUMBER}, failing \in Failures :
                    process_message(s, m, n, failing)
              /\ contexts'[s].stored
              /\ Truthy(contexts'[s].selected_business))
             => contexts'[s].selected_business
                    \in FindBusinessesWithUniversalAccess
          /\ (/\ last'.op = "handle_universal_message"
              /\ ~active_sessions[s].stored
              /\ handle_universal_message(s, m)
              /\ active_sessions'[s].stored)
             => active_sessions'[s].business_id
                    \in FindBusinessesWithUniversalAccess]_vars

---------------------------------------------------------------------------
(* The time to live of the conversation keys *)

Left(remaining) == IF remaining > TickSeconds THEN remaining - TickSeconds ELSE 0

\* TickSeconds pass.  Redis drops a key when the time its last setex or
\* expire gave it has run out.
tick ==
    /\ timers' = [s \in SessionIds |->
                     [context |-> Left(timers[s].context),
                      history |-> Left(timers[s].history),
                      idle |-> IF timers[s].idle + TickSeconds < TTL
                               THEN timers[s].idle + TickSeconds ELSE TTL]]
    /\ contexts' = [s \in SessionIds |->
                       IF timers[s].context > 0 /\ Left(timers[s].context) = 0
                       THEN NoKey ELSE contexts[s]]
    /\ histories' = [s \in SessionIds |->
                        IF timers[s].history > 0 /\ Left(timers[s].history) = 0
                        THEN <<>> ELSE histories[s]]
    /\ last' = Last("tick", FALSE, None)
    /\ UNCHANGED <<businesses, phone_numbers, active_sessions, memories, handlings, walks, orders>>

NextTtl ==
    \/ \E s \in SessionIds, m \in Messages, failing \in Failures :
          process_message(s, m, None, failing)
    \/ \E b \in BusinessIds, c \in PhoneNumberType : onboard_business(b, c)
    \/ tick

SpecTtl == Init /\ [][NextTtl]_vars

\* C22: the stored context of a session, and with it the tenant it is bound
\* to, is dropped only when 24 hours have passed without a handled message:
\* every handled message gives the context its full time again.
C22_ContextOutlivesActivity ==
    [][\A s \in SessionIds :
          (/\ last'.op = "tick"
           /\ tick
           /\ contexts[s].stored
           /\ Truthy(contexts[s].selected_business)
           /\ ~contexts'[s].stored)
          => timers'[s].idle >= TTL]_vars

---------------------------------------------------------------------------
(* route_query, one backend call at a time *)

\* What a backend does with a call: it answers, it raises, or it never
\* responds.
Behaviours == {"answers", "raises", "never"}

frame_walk == <<businesses, phone_numbers, contexts, histories, active_sessions, memories, handlings, timers, orders>>

\* route_query up to the loop of _execute_with_fallback.
route_query_begin(handle, query, intent, language) ==
    LET complexity == AssessComplexity(query, intent, language)
        primary_model == SelectModel(complexity, language)
    IN
    /\ ~walks[handle].alive
    /\ walks' = [walks EXCEPT ![handle] =
                    [alive |-> TRUE,
                     complexity |-> complexity,
                     chain |-> fallback_chains(primary_model),
                     position |-> 1,
                     awaiting |-> FALSE]]
    /\ last' = Last("_execute_with_fallback", FALSE, handle)
    /\ UNCHANGED frame_walk

\* What route_query returns when the loop has ended with `response`.
Returned(walk, response) ==
    [response |-> response.text,
     model_used |-> response.model,
     cost |-> model_costs(response.model),
     complexity |-> walk.complexity]

\* One turn of the loop: `await self._call_model(...)` with the backend at
\* the walk's position.  The await has no timeout: it ends when the backend
\* answers or raises, and not otherwise.
call_model(handle, behaviour) ==
    LET walk == walks[handle]
        model_type == walk.chain[walk.position]
    IN
    /\ walk.alive
    /\ ~walk.awaiting
    /\ walk.position <= Len(walk.chain)
    /\ IF behaviour = "answers"
       THEN /\ walks' = [walks EXCEPT ![handle] = NoObject]
            /\ last' = Last("route_query", FALSE,
                             Returned(walk, [text |-> Generated(model_type),
                                             model |-> model_type]))
       ELSE IF behaviour = "raises"
       THEN /\ walks' = [walks EXCEPT ![handle].position = @ + 1]
            /\ last' = Last("_call_model", TRUE, model_type)
       ELSE /\ walks' = [walks EXCEPT ![handle].awaiting = TRUE]
            /\ last' = Last("await _call_model", FALSE, model_type)
    /\ UNCHANGED frame_walk

\* The loop has run out of backends: the apology is returned.
all_models_failed(handle) ==
    LET walk == walks[handle] IN
    /\ walk.alive
    /\ walk.position > Len(walk.chain)
    /\ walks' = [walks EXCEPT ![handle] = NoObject]
    /\ last' = Last("route_query", FALSE,
                     Returned(walk, [text |-> Apology, model |-> "gpt3.5"]))
    /\ UNCHANGED frame_walk

NextWalk ==
    \/ \E h \in Handles, q \in Queries, i \in Intents, l \in Languages :
          route_query_begin(h, q, i, l)
    \/ \E h \in Handles, behaviour \in Behaviours : call_model(h, behaviour)
    \/ \E h \in Handles : all_models_failed(h)

SpecWalk == Init /\ [][NextWalk]_vars

\* The event loop runs every coroutine that can go on.
SpecWalkFair ==
    /\ SpecWalk
    /\ \A h \in Handles :
          /\ WF_vars(\E behaviour \in Behaviours : call_model(h, behaviour))
          /\ WF_vars(all_models_failed(h))

\* C23: every call of route_query returns in the end, whatever the backends
\* do: a backend that never responds is cut off and the walk goes on.
C23_RouteQueryReturns ==
    \A h \in Handles : walks[h].alive ~> ~walks[h].alive

---------------------------------------------------------------------------
(* The search for numbers across the providers *)

\* The most numbers a provider's search finds.
MaxFound == 5

\* The count at which search_numbers stops asking.
EnoughNumbers == 5

\* list(self.providers.keys()): the providers in the order of the dict.
provider_keys == <<"twilio", "vonage">>

\* self.regional_priority.get(country_code, list(self.providers.keys()))
regional_priority(country_code) ==
    IF country_code = "+371" THEN <<"vonage", "twilio">>
    ELSE IF country_code = "+372" THEN <<"twilio", "vonage">>
    ELSE IF country_code = "+370" THEN <<"vonage", "twilio">>
    ELSE IF country_code = "+1" THEN <<"twilio">>
    ELSE provider_keys

\* No preferred_provider was passed.
NoPreference == "None"

\* [p for p in order if p != provider]
Without(order, provider) == SelectSeq(order, LAMBDA p : p # provider)

\* The order search_numbers asks the providers in.
ProviderOrder(country_code, preferred_provider) ==
    IF preferred_provider # NoPreference /\ preferred_provider \in Providers
    THEN <<preferred_provider>> \o Without(provider_keys, preferred_provider)
    ELSE regional_priority(country_code)

\* One PhoneNumberInfo of a provider's answer.
PhoneNumberInfo(provider, k) == [provider |-> provider, number |-> k]

\* search_available_numbers of a provider: found numbers are listed; when
\* the provider's client raises, the error is logged and [] is returned.
SearchAvailableNumbers(provider, found, failing) ==
    IF provider \in failing THEN <<>>
    ELSE [k \in 1..found[provider] |-> PhoneNumberInfo(provider, k)]

\* The loop of search_numbers from position i on, with the numbers
\* gathered and the providers asked so far.
RECURSIVE AskProviders(_, _, _, _, _, _)
AskProviders(provider_order, i, found, failing, all_numbers, queried) ==
    IF i > Len(provider_order)
    THEN [numbers |-> all_numbers, queried |-> queried]
    ELSE IF provider_order[i] \notin Providers
    THEN AskProviders(provider_order, i + 1, found, failing, all_numbers, queried)
    ELSE LET numbers == SearchAvailableNumbers(provider_order[i], found, failing)
             extended == all_numbers \o numbers
             asked == Append(queried, provider_order[i])
         IN IF numbers # <<>> /\ Len(extended) >= EnoughNumbers
            THEN [numbers |-> extended, queried |-> asked]
            ELSE AskProviders(provider_order, i + 1, found, failing, extended, asked)

\* The search that asks every provider of the order, however many numbers
\* it has.
SearchNumbersExhaustive(country_code, preferred_provider, found, failing) ==
    LET provider_order == ProviderOrder(country_code, preferred_provider)
        answers == [k \in 1..Len(provider_order) |->
                       SearchAvailableNumbers(provider_order[k], found, failing)]
    IN [order |-> provider_order,
        numbers |-> IF Len(provider_order) = 1 THEN answers[1]
                    ELSE answers[1] \o answers[2],
        queried |-> provider_order]

\* The search that gives up at the first provider that lists nothing.
SearchNumbersStopsAtEmpty(country_code, preferred_provider, found, failing) ==
    LET provider_order == ProviderOrder(country_code, preferred_provider)
        first == SearchAvailableNumbers(provider_order[1], found, failing)
        full == AskProviders(provider_order, 1, found, failing, <<>>, <<>>)
    IN IF first = <<>>
       THEN [order |-> provider_order, numbers |-> <<>>,
             queried |-> <<provider_order[1]>>]
       ELSE [order |-> provider_order, numbers |-> full.numbers,
             queried |-> full.queried]

\* search_numbers: the list it returns, with the order it used and the
\* providers it asked.
SearchNumbers(country_code, preferred_provider, found, failing) ==
    LET provider_order == ProviderOrder(country_code, preferred_provider)
        asked == AskProviders(provider_order, 1, found, failing, <<>>, <<>>)
    IN [order |-> provider_order,
        numbers |-> asked.numbers,
        queried |-> asked.queried]

search_numbers(country_code, preferred_provider, found, failing) ==
    /\ last' = Last("search_numbers", FALSE,
                     [country_code |-> country_code,
                      preferred_provider |-> preferred_provider,
                      found |-> found,
                      failing |-> failing,
                      answer |-> SearchNumbers(country_code, preferred_provider,
                                               found, failing)])
    /\ UNCHANGED <<businesses, phone_numbers, conversations>>

CountryCodes == {"+371", "+372", "+1", "+44"}

PreferredProviders == Providers \cup {NoPreference, "telnyx"}

NextSearch ==
    \E c \in CountryCodes, p \in PreferredProviders,
       found \in [Providers -> 0..MaxFound], failing \in SUBSET Providers :
       search_numbers(c, p, found, failing)

SpecSearch == Init /\ [][NextSearch]_vars

\* The region's order with the preferred provider moved to its front.
Promoted(country_code, preferred_provider) ==
    IF preferred_provider \in Providers
    THEN <<preferred_provider>>
             \o Without(regional_priority(country_code), preferred_provider)
    ELSE regional_priority(country_code)

\* The answers of the providers in `queried`, one after the other.
RECURSIVE Concatenation(_, _, _)
Concatenation(queried, found, failing) ==
    IF queried = <<>> THEN <<>>
    ELSE SearchAvailableNumbers(Head(queried), found, failing)
             \o Concatenation(Tail(queried), found, failing)

\* C24: the providers asked are, in order, the first of the region's order
\* (the order of all providers for a region that has none) with the
\* preferred provider moved to the front, and the list returned is their
\* answers one after the other.
C24_RegionalOrderWithPreferenceFirst ==
    last.op = "search_numbers"
    => LET answer == last.result.answer
           expected == Promoted(last.result.country_code,
                                last.result.preferred_provider)
       IN /\ Len(answer.queried) <= Len(expected)
          /\ answer.queried = SubSeq(expected, 1, Len(answer.queried))
          /\ answer.numbers = Concatenation(answer.queried, last.result.found,
                                            last.result.failing)

\* C25: a provider is asked only while fewer than 5 numbers are gathered,
\* and every provider of the order is asked as long as that is so.
C25_StopsAtFiveNumbers ==
    last.op = "search_numbers"
    => LET answer == last.result.answer
           Total(k) == Len(Concatenation(SubSeq(answer.queried, 1, k),
                                         last.result.found,
                                         last.result.failing))
       IN /\ \A k \in 1..(Len(answer.queried) - 1) : Total(k) < EnoughNumbers
          /\ Total(Len(answer.queried)) < EnoughNumbers
             => answer.queried = answer.order

\* The first provider of two listed 5 numbers and the second was not asked.
C25_Witness ==
    /\ last.op = "search_numbers"
    /\ Len(last.result.answer.order) = 2
    /\ Len(last.result.answer.queried) = 1
    /\ Len(last.result.answer.numbers) >= EnoughNumbers

\* C26: a provider whose search fails adds nothing to the list and does not
\* end the search: nothing is raised, the providers after it are asked, and
\* what the others found is returned.
C26_FailedSearchIsSkipped ==
    last.op = "search_numbers"
    => LET answer == last.result.answer
           From(provider) ==
               SelectSeq(answer.numbers, LAMBDA info : info.provider = provider)
       IN /\ ~last.raised
          /\ \A k \in 1..Len(answer.queried) :
                LET provider == answer.queried[k] IN
                IF provider \in last.result.failing
                THEN /\ From(provider) = <<>>
                     /\ k < Len(answer.order) => Len(answer.queried) > k
                ELSE From(provider) =
                         SearchAvailableNumbers(provider, last.result.found, {})

\* The first provider failed, the second was asked and its numbers are the
\* list.
C26_Witness ==
    /\ last.op = "search_numbers"
    /\ Len(last.result.answer.queried) = 2
    /\ last.result.answer.queried[1] \in last.result.failing
    /\ last.result.answer.queried[2] \notin last.result.failing
    /\ last.result.answer.numbers # <<>>

---------------------------------------------------------------------------
(* Who owns a dedicated number *)

NextOwnership ==
    \/ \E b \in BusinessIds, c \in PhoneNumberType : onboard_business(b, c)
    \/ \E b \in BusinessIds, n \in DedicatedNumbers, p \in Providers,
          ok \in BOOLEAN : provision_number(b, n, p, ok)
    \/ \E b \in BusinessIds, n \in DedicatedNumbers, e \in ExtensionCodes :
          setup_existing_number(b, n, e)
    \/ \E b \in BusinessIds, i \in 1..MaxNumber, e \in ExtensionCodes :
          verify_existing_number(b, i, e)

SpecOwnership == Init /\ [][NextOwnership]_vars

\* The tenants a dedicated number is assigned to: those whose
\* custom_phone_number it is and those a record of it belongs to.
Owners(number) ==
    {b \in BusinessIds : /\ BusinessExists(b)
                         /\ Business(b).custom_phone_number = number}
        \cup {r.business_id : r \in {row \in Rows : /\ ~row.is_universal
                                                   /\ row.phone_number = number}}

\* C27: whatever was onboarded, provisioned and verified, a dedicated number
\* is assigned to one tenant at most.
C27_DedicatedNumberHasOneOwner ==
    \A number \in DedicatedNumbers \cup {MOCK_CUSTOM_NUMBER} :
        Cardinality(Owners(number)) <= 1

---------------------------------------------------------------------------
(* Orders *)

OrderStatus == {"pending", "confirmed", "preparing", "ready", "completed", "cancelled"}

PaymentStatus == {"pending", "paid", "failed", "refunded"}

PaymentMethod == {"online", "cash", "wallet"}

\* The row of the order with this id that belongs to the business, if any:
\* Query.filter(Order.id == order_id, Order.business_id == business.id).
OrderOf(order_id, business_id) ==
    orders[order_id].exists /\ orders[order_id].business_id = business_id

frame_orders == <<businesses, phone_numbers, contexts, histories, active_sessions, memories, handlings, timers, walks>>

\* OrderService.create_order, as the POST endpoint calls it.
create_order(order_id, business_id) ==
    /\ ~orders[order_id].exists
    /\ BusinessExists(business_id)
    /\ orders' = [orders EXCEPT ![order_id] =
                     [exists |-> TRUE,
                      business_id |-> business_id,
                      status |-> "pending",
                      payment_status |-> "pending"]]
    /\ last' = Last("create_order", FALSE, order_id)
    /\ UNCHANGED frame_orders

\* The answer of an endpoint that does not find the order.
NotFound(op) == Last(op, TRUE, "404")

\* PUT /{order_id}/status
update_order_status(order_id, business_id, status) ==
    /\ IF ~OrderOf(order_id, business_id)
       THEN /\ last' = NotFound("update_order_status")
            /\ UNCHANGED orders
       ELSE /\ orders' = [orders EXCEPT ![order_id].status = status]
            /\ last' = Last("update_order_status", FALSE, order_id)
    /\ UNCHANGED frame_orders

\* _is_valid_status_transition
IsValidStatusTransition(current, new) ==
    IF new = "cancelled" THEN current # "completed"
    ELSE \/ current = "pending" /\ new \in {"confirmed", "cancelled"}
         \/ current = "confirmed" /\ new \in {"preparing", "cancelled"}
         \/ current = "preparing" /\ new \in {"ready", "cancelled"}
         \/ current = "ready" /\ new \in {"completed", "cancelled"}

\* OrderService.update_order_status
OrderService_update_order_status(order_id, new_status) ==
    /\ IF ~orders[order_id].exists
       THEN /\ last' = Last("OrderService.update_order_status", TRUE,
                             "Order not found")
            /\ UNCHANGED orders
       ELSE IF ~IsValidStatusTransition(orders[order_id].status, new_status)
       THEN /\ last' = Last("OrderService.update_order_status", TRUE,
                             "Invalid status transition")
            /\ UNCHANGED orders
       ELSE /\ orders' = [orders EXCEPT ![order_id].status = new_status]
            /\ last' = Last("OrderService.update_order_status", FALSE,
                             order_id)
    /\ UNCHANGED frame_orders

\* PUT /orders/{order_id}/start
start_preparing_order(order_id, business_id) ==
    /\ IF ~OrderOf(order_id, business_id)
       THEN /\ last' = NotFound("start_preparing_order")
            /\ UNCHANGED orders
       ELSE /\ orders' = [orders EXCEPT ![order_id].status = "preparing"]
            /\ last' = Last("start_preparing_order", FALSE, order_id)
    /\ UNCHANGED frame_orders

\* PUT /orders/{order_id}/complete
complete_order(order_id, business_id) ==
    /\ IF ~OrderOf(order_id, business_id)
       THEN /\ last' = NotFound("complete_order")
            /\ UNCHANGED orders
       ELSE /\ orders' = [orders EXCEPT ![order_id].status = "ready"]
            /\ last' = Last("complete_order", FALSE, order_id)
    /\ UNCHANGED frame_orders

\* POST /{order_id}/payment
process_payment(order_id, business_id, payment_method) ==
    /\ IF ~OrderOf(order_id, business_id)
       THEN /\ last' = NotFound("process_payment")
            /\ UNCHANGED orders
       ELSE IF orders[order_id].payment_status = "paid"
       THEN /\ last' = Last("process_payment", TRUE, "400")
            /\ UNCHANGED orders
       ELSE IF payment_method = "cash"
       THEN /\ orders' = [orders EXCEPT ![order_id].payment_status = "pending"]
            /\ last' = Last("process_payment", FALSE, order_id)
       ELSE /\ orders' = [orders EXCEPT ![order_id].payment_status = "paid",
                                        ![order_id].status = "confirmed"]
            /\ last' = Last("process_payment", FALSE, order_id)
    /\ UNCHANGED frame_orders

\* DELETE /{order_id}
cancel_order(order_id, business_id) ==
    /\ IF ~OrderOf(order_id, business_id)
       THEN /\ last' = NotFound("cancel_order")
            /\ UNCHANGED orders
       ELSE IF orders[order_id].status = "completed"
       THEN /\ last' = Last("cancel_order", TRUE, "400")
            /\ UNCHANGED orders
       ELSE /\ orders' = [orders EXCEPT
                             ![order_id].status = "cancelled",
                             ![order_id].payment_status =
                                 IF @ = "paid" THEN "refunded" ELSE @]
            /\ last' = Last("cancel_order", FALSE, order_id)
    /\ UNCHANGED frame_orders

NextOrders ==
    \/ \E o \in OrderIds, b \in BusinessIds : create_order(o, b)
    \/ \E o \in OrderIds, b \in BusinessIds, status \in OrderStatus :
          update_order_status(o, b, status)
    \/ \E o \in OrderIds, status \in OrderStatus :
          OrderService_update_order_status(o, status)
    \/ \E o \in OrderIds, b \in BusinessIds : start_preparing_order(o, b)
    \/ \E o \in OrderIds, b \in BusinessIds : complete_order(o, b)
    \/ \E o \in OrderIds, b \in BusinessIds, m \in PaymentMethod :
          process_payment(o, b, m)
    \/ \E o \in OrderIds, b \in BusinessIds : cancel_order(o, b)

SpecOrders == Init /\ [][NextOrders]_vars

\* The status after `current` on the way of an order.
Successor(current) ==
    IF current = "pending" THEN "confirmed"
    ELSE IF current = "confirmed" THEN "preparing"
    ELSE IF current = "preparing" THEN "ready"
    ELSE IF current = "ready" THEN "completed"
    ELSE current

\* C28: whatever operation changes the status of an order, the new status
\* is the next one on the way pending, confirmed, preparing, ready,
\* completed, or it is cancelled and the order was not completed; the status
\* of a completed or cancelled order does not change.
C28_StatusMovesOneStepOrCancels ==
    [][\A o \in OrderIds :
          (orders[o].exists /\ orders'[o].status # orders[o].status)
          => /\ orders[o].status \notin {"completed", "cancelled"}
             /\ \/ orders'[o].status = Successor(orders[o].status)
                \/ orders'[o].status = "cancelled"]_vars

---------------------------------------------------------------------------
(* The requests the universal bot sends to the router *)

\* Texts with a keyword of the simple class and with a marker of the
\* complex class, next to the others.
Texts ==
    {<<"h", "e", "l", "l", "o">>,
     <<"m", "e", "n", "u">>,
     <<"b", "u", "t", " ", "s", "u", "n", "r", "i", "s", "e">>}

\* The backends that fail: none, Groq alone, the first of the chain, the
\* first two, all.
BackendFailures ==
    {{}, {"groq"}, {"gpt4"}, {"gpt4", "claude"}, ModelType}

NextGeneration ==
    \/ \E s \in SessionIds, m \in Texts, failing \in BackendFailures :
          process_message(s, m, None, failing)
    \/ \E s \in SessionIds : expire_context(s)
    \/ \E b \in BusinessIds, c \in PhoneNumberType : onboard_business(b, c)
    \/ \E b \in BusinessIds : delete_business(b)

SpecGeneration == Init /\ [][NextGeneration]_vars

\* C29: whatever the text and whichever backends fail, the reply of the
\* universal bot is the one the chain GPT-4, Claude, GPT-3.5 gives (the
\* request is classified multilingual), and Groq is not the backend of it.
C29_BotRequestsAreMultilingual ==
    [][\A s \in SessionIds, m \in Texts, failing \in BackendFailures :
          (/\ last'.op = "process_message"
           /\ ~last'.raised
           /\ process_message(s, m, None, failing))
          => LET expected == TryChain(<<"gpt4", "claude", "gpt3.5">>, 1,
                                      failing, <<>>)
             IN /\ AssessComplexity(m, NoIntent, "auto") = "multilingual"
                /\ last'.result.message = expected.text
                /\ last'.result.model_used = expected.model
                /\ last'.result.model_used # "groq"
                /\ \A k \in 1..Len(expected.calls) :
                      expected.calls[k].model # "groq"]_vars

\* A tenant conversation about the menu was answered by Claude after GPT-4
\* had failed, with Groq in working order.
C29_Witness ==
    /\ last.op = "process_message"
    /\ ~last.raised
    /\ last.result.prompt = "conversation"
    /\ last.result.model_used = "claude"
    /\ last.result.message = Generated("claude")

---------------------------------------------------------------------------
(* What route_query names as the backend *)

\* The answer without the text and without the record of the calls.
Form(answer) ==
    [model_used |-> answer.model_used,
     cost |-> answer.cost,
     complexity |-> answer.complexity]

\* C30: the answer of route_query names a backend and the cost of that
\* backend.  When a call succeeded, the backend named is the one of that
\* call and the text is its text; when every call failed, the text is the
\* apology, the backend named is GPT-3.5 with the cost of GPT-3.5, and but
\* for the text the answer is the one of a request of the same kind that
\* GPT-3.5 did answer.
C30_AnswerNamesBackendAndCost ==
    last.op = "route_query"
    => LET answer == last.result.answer
           request == last.result.request
           calls == answer.calls
           succeeded == {k \in 1..Len(calls) : calls[k].ok}
       IN /\ ~last.raised
          /\ answer.model_used \in ModelType
          /\ answer.cost = model_costs(answer.model_used)
          /\ succeeded # {}
             => /\ succeeded = {Len(calls)}
                /\ answer.model_used = calls[Len(calls)].model
                /\ answer.response = Generated(answer.model_used)
          /\ succeeded = {}
             => /\ answer.response = Apology
                /\ answer.model_used = "gpt3.5"
                /\ answer.cost = model_costs("gpt3.5")
                /\ \E failing \in SUBSET ModelType :
                      LET genuine == RouteQuery(request.query, request.intent,
                                                request.language, failing)
                      IN /\ genuine.response = Generated("gpt3.5")
                         /\ Form(genuine) = Form(answer)

\* Claude, GPT-4 and GPT-3.5 failed on a request of the complex class: the
\* apology came back under the name and at the cost of GPT-3.5.
C30_Witness ==
    /\ last.op = "route_query"
    /\ last.result.answer.complexity = "complex"
    /\ last.result.answer.response = Apology
    /\ last.result.answer.model_used = "gpt3.5"
    /\ last.result.answer.cost = model_costs("gpt3.5")

=============================================================================
